---- MODULE Spec2Model ----
(***************************************************************************)
(* Model of src/pybridge/options_bridge.py: the one-shot option bridge.    *)
(*                                                                         *)
(* Numbers are fixed-point integers.  Prices (spot, strike, bid, ask,      *)
(* lastPrice) are in thousandths, implied volatility is in units of 1e-5   *)
(* and instants / durations are in thousandths of a day, so that every     *)
(* round(x, 2) of a price or a duration and every round(iv, 4) is a        *)
(* rounding to a multiple of ten units and values below half of the last   *)
(* emitted digit exist in the model.                                       *)
(***************************************************************************)
EXTENDS Integers, Sequences, FiniteSets, TLC

VARIABLES
    pc,                     \* position of main()
    argv,                   \* command line (input)
    provider,               \* what yfinance answers during this run (input)
    clock,                  \* the instant datetime.now() returns at line 53
    max_days, num_expiries, \* parsed arguments
    spot, rows, now, valid_expiries, idx,
    fetched,                \* expirations ticker.option_chain was called for
    atm_iv, put_call_volume_ratio, implied_move,
    stdout,                 \* documents printed so far
    exitCode                \* <<>> while running, <<c>> after sys.exit(c)

vars == <<pc, argv, provider, clock, max_days, num_expiries, spot, rows, now,
          valid_expiries, idx, fetched, atm_iv, put_call_volume_ratio,
          implied_move, stdout, exitCode>>

-----------------------------------------------------------------------------
(* Bounds of the model                                                     *)

MaxExpiries == 7   \* longest expiration list the provider returns
MaxRecs == 2       \* longest list of call records in one chain
MaxStrikes == 2    \* longest list of call records in the ATM scenarios

-----------------------------------------------------------------------------
(* Python values                                                           *)

\* None, and Some(v) for a value that is not None
Null == <<>>
Some(v) == <<v>>

\* A loosely typed provider value: a missing key, NaN, a value that float()
\* and int() refuse (a string, None), or a number.
Absent == [k |-> "absent", v |-> 0]
NaN == [k |-> "nan", v |-> 0]
Bad == [k |-> "bad", v |-> 0]
Num(n) == [k |-> "num", v |-> n]

Abs(x) == IF x < 0 THEN -x ELSE x

\* round(x, ndigits) where g is the weight of the last kept digit in units:
\* to the nearest multiple of g, an exact half to the even multiple.
RoundTo(x, g) ==
    LET q == x \div g
        r == x % g
    IN  IF 2 * r < g THEN q * g
        ELSE IF 2 * r > g THEN (q + 1) * g
        ELSE IF q % 2 = 0 THEN q * g ELSE (q + 1) * g

\* round(n / d, 0) for d # 0, an exact half to the even integer.
RoundDiv(n, d) ==
    LET nn == IF d < 0 THEN -n ELSE n
        dd == Abs(d)
        q == nn \div dd
        r == nn % dd
    IN  IF 2 * r < dd THEN q
        ELSE IF 2 * r > dd THEN q + 1
        ELSE IF q % 2 = 0 THEN q ELSE q + 1

Grain == 10            \* ten units: the last digit round(x, 2) / round(iv, 4) keeps
DayUnits == 1000       \* units in one day (86400 seconds)

\* bool(x)
Truthy(x) ==
    CASE x.k = "absent" -> FALSE
      [] x.k = "num" -> x.v # 0
      [] OTHER -> TRUE

\* a or b
PyOr(a, b) == IF Truthy(a) THEN a ELSE b

\* row.get(key, 0)
Get0(x) == IF x.k = "absent" THEN Num(0) ELSE x
\* float(x) raises on a string or None, and passes NaN through
FloatRaises(x) == x.k = "bad"
\* int(x) raises on a string, None and NaN
IntRaises(x) == x.k \in {"bad", "nan"}
\* pd.notna(row.get(key))
NotNa(x) == x.k \notin {"absent", "nan"}
\* x > 0, which is False for NaN
Gt0(x) == x.k = "num" /\ x.v > 0
Ge0(x) == x.k = "num" /\ x.v >= 0

-----------------------------------------------------------------------------
(* Arguments                                                               *)

DefaultMaxDays == 30
DefaultExpiries == 5
MinExpiries == 3
MaxExpiriesArg == 8

Min(a, b) == IF a < b THEN a ELSE b
Max(a, b) == IF a > b THEN a ELSE b

\* min(max(num_expiries, 3), 8)
Clamp(n) == Min(Max(n, MinExpiries), MaxExpiriesArg)

\* int(sys.argv[i]) if len(sys.argv) > i else default
ArgRaises(a) == a.k = "bad"
ArgValue(a, default) == IF a.k = "absent" THEN default ELSE a.v

-----------------------------------------------------------------------------
(* Expiration selection                                                    *)

\* pd.to_datetime(expiry_str).tz_localize('UTC').replace(hour=0, ...)
ExpiryUTC(expiry) == expiry * DayUnits

\* (expiry_utc - now).total_seconds() / 86400
TtmDays(expiry, t) == ExpiryUTC(expiry) - t

\* the window without its upper end
InWindowNoMax(ttm, maxd) == ttm > 0

\* ttm_days > 0 and ttm_days <= max_days
InWindow(ttm, maxd) == ttm > 0 /\ ttm <= maxd * DayUnits

\* the scan without its 2 x num_expiries cap
CandidatesAll(expiries, n) == expiries

\* expiries[:num_expiries * 2]
Candidates(expiries, n) == SubSeq(expiries, 1, Min(Len(expiries), 2 * n))

RECURSIVE ScanExpiries(_, _, _, _, _, _)
ScanExpiries(cands, i, valid, t, maxd, n) ==
    IF i > Len(cands) THEN valid
    ELSE IF InWindow(TtmDays(cands[i], t), maxd)
         THEN LET v == Append(valid, cands[i])
              IN  IF Len(v) >= n THEN v
                  ELSE ScanExpiries(cands, i + 1, v, t, maxd, n)
         ELSE ScanExpiries(cands, i + 1, valid, t, maxd, n)

SelectExpiries(expiries, t, maxd, n) ==
    ScanExpiries(Candidates(expiries, n), 1, <<>>, t, maxd, n)

-----------------------------------------------------------------------------
(* Record normalisation                                                    *)

\* one iteration of the body of "for _, row in opt_chain.calls.iterrows()"
\* (and of the identical loop over puts)
RecordRaises(row) ==
    \/ FloatRaises(Get0(row.impliedVolatility))
    \/ IntRaises(Get0(row.openInterest))
    \/ FloatRaises(Get0(row.strike))
    \/ (NotNa(row.volume) /\ IntRaises(row.volume))
    \/ (NotNa(row.bid) /\ FloatRaises(row.bid))
    \/ (NotNa(row.ask) /\ FloatRaises(row.ask))
    \/ (NotNa(row.lastPrice) /\ FloatRaises(row.lastPrice))

\* volume = int(row.get('volume', 0)) if pd.notna(row.get('volume')) else 0
OrZero(x) == IF NotNa(x) THEN x.v ELSE 0

\* round(bid, 2) if bid > 0 else 0
PriceOut(x) == IF OrZero(x) > 0 THEN RoundTo(OrZero(x), Grain) ELSE 0

RecordAccepted(row, ttm, maxd) ==
    /\ Gt0(Get0(row.impliedVolatility))
    /\ Ge0(Get0(row.openInterest))
    /\ InWindow(ttm, maxd)
    /\ Gt0(Get0(row.strike))

CanonicalRow(row, type, expiry, ttm) ==
    [expiryUTC |-> ExpiryUTC(expiry),
     ttmDays |-> RoundTo(ttm, Grain),
     strike |-> RoundTo(Get0(row.strike).v, Grain),
     type |-> type,
     iv |-> RoundTo(Get0(row.impliedVolatility).v, Grain),
     oi |-> Get0(row.openInterest).v,
     volume |-> OrZero(row.volume),
     bid |-> PriceOut(row.bid),
     ask |-> PriceOut(row.ask),
     lastPrice |-> PriceOut(row.lastPrice)]

\* the loop over one side of a chain: the rows after it, and whether an
\* exception left it
RECURSIVE ProcessRecords(_, _, _, _, _, _, _)
ProcessRecords(acc, recs, i, type, expiry, ttm, maxd) ==
    IF i > Len(recs) THEN [rows |-> acc, raised |-> FALSE]
    ELSE IF RecordRaises(recs[i]) THEN [rows |-> acc, raised |-> TRUE]
    ELSE IF RecordAccepted(recs[i], ttm, maxd)
         THEN ProcessRecords(Append(acc, CanonicalRow(recs[i], type, expiry, ttm)),
                             recs, i + 1, type, expiry, ttm, maxd)
         ELSE ProcessRecords(acc, recs, i + 1, type, expiry, ttm, maxd)

\* calls, then puts, of one fetched chain
ProcessChain(acc, chain, expiry, ttm, maxd) ==
    LET c == ProcessRecords(acc, chain.calls, 1, "call", expiry, ttm, maxd)
    IN  IF c.raised THEN c
        ELSE ProcessRecords(c.rows, chain.puts, 1, "put", expiry, ttm, maxd)

-----------------------------------------------------------------------------
(* Metrics                                                                 *)

Range(s) == {s[i] : i \in 1..Len(s)}

\* sorted(S) for a set S: its elements in increasing order
Sorted(S) ==
    CHOOSE f \in [1..Cardinality(S) -> S] :
        \A i, j \in 1..Cardinality(S) : i < j => f[i] < f[j]

\* the scan keeping the last of the nearest strikes instead of the first
RECURSIVE MinByDistanceLast(_, _, _, _)
MinByDistanceLast(strikes, i, best, s) ==
    IF i > Len(strikes) THEN best
    ELSE IF Abs(strikes[i] - s) <= Abs(best - s)
         THEN MinByDistanceLast(strikes, i + 1, strikes[i], s)
         ELSE MinByDistanceLast(strikes, i + 1, best, s)

\* min(strikes, key=lambda s: abs(s - spot)): the first element of the
\* sequence whose key no other element undercuts
RECURSIVE MinByDistance(_, _, _, _)
MinByDistance(strikes, i, best, s) ==
    IF i > Len(strikes) THEN best
    ELSE IF Abs(strikes[i] - s) < Abs(best - s)
         THEN MinByDistance(strikes, i + 1, strikes[i], s)
         ELSE MinByDistance(strikes, i + 1, best, s)

\* expiries_in_data[0] of sorted(set(r['expiryUTC'] for r in rows))
NearestExpiry(rs) == Sorted({r.expiryUTC : r \in Range(rs)})[1]

\* [r for r in rows if r['expiryUTC'] == nearest_expiry]
ExpiryRows(rs, nearest_expiry) ==
    SelectSeq(rs, LAMBDA r : r.expiryUTC = nearest_expiry)

\* strikes = sorted(set(r['strike'] for r in expiry_rows))
AtmStrikes(expiry_rows) == Sorted({r.strike : r \in Range(expiry_rows)})

AtmStrike(strikes, s) == MinByDistance(strikes, 2, strikes[1], s)

\* next((r for r in expiry_rows if ...), None)
RECURSIVE FirstRow(_, _, _, _)
FirstRow(expiry_rows, i, strike, type) ==
    IF i > Len(expiry_rows) THEN Null
    ELSE IF expiry_rows[i].strike = strike /\ expiry_rows[i].type = type
         THEN Some(expiry_rows[i])
         ELSE FirstRow(expiry_rows, i + 1, strike, type)

\* {"percent": round(iv * 100, 1), "decimal": round(iv, 4), "strike": atm_strike}
\* where iv2 is twice the volatility; percent is in thousandths of a percent
IvMetric(iv2, strike) ==
    [percent |-> RoundDiv(iv2, 2 * Grain * Grain) * Grain * Grain,
     decimal |-> RoundDiv(iv2, 2 * Grain) * Grain,
     strike |-> strike]

\* lines 156-174
AtmIv(atm_call, atm_put, atm_strike) ==
    IF atm_call # Null /\ atm_put # Null
    THEN Some(IvMetric(atm_call[1].iv + atm_put[1].iv, atm_strike))
    ELSE IF atm_call # Null THEN Some(IvMetric(2 * atm_call[1].iv, atm_strike))
    ELSE IF atm_put # Null THEN Some(IvMetric(2 * atm_put[1].iv, atm_strike))
    ELSE Null

RECURSIVE SumVolume(_, _, _)
SumVolume(expiry_rows, i, type) ==
    IF i > Len(expiry_rows) THEN 0
    ELSE (IF expiry_rows[i].type = type THEN expiry_rows[i].volume ELSE 0)
         + SumVolume(expiry_rows, i + 1, type)

\* lines 177-185; the ratio is in hundredths
PutCall(total_call_vol, total_put_vol) ==
    IF total_call_vol > 0
    THEN Some([ratio |-> RoundDiv(total_put_vol * 100, total_call_vol),
               window |-> "expiry"])
    ELSE Null

\* lines 190-201: twice the mid price of one leg, or Null
Mid2(r) ==
    IF r.bid > 0 /\ r.ask > 0 THEN Some(r.bid + r.ask)
    ELSE IF r.lastPrice > 0 THEN Some(2 * r.lastPrice)
    ELSE Null

\* lines 188-209; abs is in thousandths, pct in tenths of a percent
ImpliedMove(atm_call, atm_put, s, nearest_expiry) ==
    IF atm_call # Null /\ atm_put # Null
       /\ Mid2(atm_call[1]) # Null /\ Mid2(atm_put[1]) # Null
    THEN LET straddle2 == Mid2(atm_call[1])[1] + Mid2(atm_put[1])[1]
         IN  Some([abs |-> RoundDiv(straddle2, 2 * Grain) * Grain,
                   pct |-> RoundDiv(straddle2 * 1000, 2 * s),
                   expiry |-> nearest_expiry])
    ELSE Null

-----------------------------------------------------------------------------
(* Result documents                                                        *)

\* the document of the missing-argument path and of the outermost handler
DegenerateDoc == [spot |-> Null, fetched_at |-> "ts", rows |-> <<>>]

\* round(spot, 2) if spot else None
SpotOut(s) == IF Truthy(s) THEN Some(RoundTo(s.v, Grain)) ELSE Null

ResultDoc ==
    [spot |-> SpotOut(spot), fetched_at |-> "ts", rows |-> rows,
     atm_iv |-> atm_iv, put_call_volume_ratio |-> put_call_volume_ratio,
     implied_move |-> implied_move]

-----------------------------------------------------------------------------
(* Inputs: the command line and what the provider answers                  *)

\* the record every scenario varies: strike 100.00, iv 0.2, bid 2.00, ask 2.20
Good ==
    [impliedVolatility |-> Num(20000), openInterest |-> Num(10),
     strike |-> Num(100000), volume |-> Num(5),
     bid |-> Num(2000), ask |-> Num(2200), lastPrice |-> Num(2100)]

\* Good with one field missing, NaN, unparsable, non-positive or tiny
FieldCases ==
    [impliedVolatility |-> {Absent, NaN, Bad, Num(4)},
     openInterest |-> {Absent, NaN, Num(-1)},
     strike |-> {Absent, Bad, Num(4)},
     volume |-> {NaN, Bad, Num(-1)},
     bid |-> {Bad, Num(-1)},
     ask |-> {NaN},
     lastPrice |-> {Num(0)}]

RawRecords ==
    {Good} \cup {[Good EXCEPT ![f] = x] : <<f, x>> \in
                    UNION {{<<g, y>> : y \in FieldCases[g]} : g \in DOMAIN FieldCases}}

\* records of the strikes around the spot
StrikeRecords ==
    {[Good EXCEPT !.strike = Num(k), !.impliedVolatility = Num(k \div 5)] :
        k \in {95000, 100000, 105000}}

\* the same, and records without a usable quote or volume
AtmRecords ==
    StrikeRecords
    \cup {[Good EXCEPT !.strike = Num(k), !.bid = Num(0)] : k \in {95000, 105000}}
    \cup {[Good EXCEPT !.bid = Num(0), !.lastPrice = Num(0)],
          [Good EXCEPT !.volume = Num(0)]}

SeqsUpTo(S, n) == UNION {[1..k -> S] : k \in 0..n}

FailChain == [ok |-> FALSE, calls |-> <<>>, puts |-> <<>>]
Chain(calls, puts) == [ok |-> TRUE, calls |-> calls, puts |-> puts]
StdChain == Chain(<<Good>>, <<Good>>)

Dates == {10, 11, 12}

\* ticker.info: a failure, or the two price keys
InfoFail == [ok |-> FALSE, regularMarketPrice |-> Absent, currentPrice |-> Absent]
Info(rmp, cp) == [ok |-> TRUE, regularMarketPrice |-> rmp, currentPrice |-> cp]
InfoResps ==
    {InfoFail} \cup {Info(rmp, cp) : rmp \in {Absent, Num(0), Num(100000), Bad},
                                    cp \in {Absent, Num(101000)}}

\* ticker.history(period="1d"): a failure, an empty frame, or the last close
HistFail == [ok |-> FALSE, close |-> Null]
Hist(c) == [ok |-> TRUE, close |-> c]
HistResps == {HistFail, Hist(Null), Hist(Some(99504))}

\* ticker.options: a failure or the list of expirations
OptionsFail == [ok |-> FALSE, list |-> <<>>]
Options(l) == [ok |-> TRUE, list |-> l]

Argv(m, n) == [symbol |-> TRUE, max_days |-> m, expiries |-> n]

Provider(i, h, o, c) == [info |-> i, hist |-> h, options |-> o, chain |-> c]

\* the first expiration answers c1, every other one c2
ChainsOf(c1, c2) == [d \in Dates |-> IF d = 11 THEN c1 ELSE c2]

\* arguments of every kind, over short expiration lists
ArgInputs ==
    \E s \in BOOLEAN, m \in {Absent, Bad, Num(2)},
       n \in {Absent, Bad, Num(1), Num(10)},
       o \in {OptionsFail, Options(<<>>), Options(<<11, 12>>)},
       c1 \in {FailChain, StdChain}, c2 \in {FailChain, StdChain} :
        /\ argv = [symbol |-> s, max_days |-> m, expiries |-> n]
        /\ provider = Provider(Info(Num(100000), Absent), HistFail, o, ChainsOf(c1, c2))
        /\ clock = 10000

\* spot lookups of every kind
SpotInputs ==
    \E i \in InfoResps, h \in HistResps,
       o \in {OptionsFail, Options(<<11, 12>>)}, c2 \in {FailChain, StdChain} :
        /\ argv = Argv(Absent, Absent)
        /\ provider = Provider(i, h, o, ChainsOf(StdChain, c2))
        /\ clock = 10000

\* expiration lists of every order, around the window's two ends
SelInputs ==
    \E m \in {Num(1), Num(2)}, n \in {Absent, Num(1)},
       l \in SeqsUpTo({10, 11}, MaxExpiries), t \in {9997, 10000} :
        /\ argv = Argv(m, n)
        /\ provider = Provider(Info(Num(100000), Absent), HistFail, Options(l),
                               ChainsOf(StdChain, StdChain))
        /\ clock = t

\* records of every kind in the first chain
RecInputs ==
    \E cs \in SeqsUpTo(RawRecords, MaxRecs),
       ps \in {<<>>, <<[Good EXCEPT !.volume = Num(-1)]>>} :
        /\ argv = Argv(Absent, Absent)
        /\ provider = Provider(Info(Num(100000), Absent), HistFail,
                               Options(<<11, 12>>), ChainsOf(Chain(cs, ps), StdChain))
        /\ clock = 10000

\* strikes in every provider order around spots 100.00, 101.00 and 97.50
AtmInputs ==
    \E s \in {100000, 101000, 97500}, l \in {<<11, 12>>, <<12, 11>>},
       cs \in SeqsUpTo(AtmRecords, MaxStrikes), ps \in SeqsUpTo(StrikeRecords, 1) :
        /\ argv = Argv(Absent, Absent)
        /\ provider = Provider(Info(Absent, Num(s)), HistFail, Options(l),
                               ChainsOf(Chain(cs, ps), StdChain))
        /\ clock = 10000

-----------------------------------------------------------------------------
(* main()                                                                  *)

Init ==
    /\ ArgInputs \/ SpotInputs \/ SelInputs \/ RecInputs \/ AtmInputs
    /\ pc = "start"
    /\ max_days = 0
    /\ num_expiries = 0
    /\ spot = Absent
    /\ rows = <<>>
    /\ now = 0
    /\ valid_expiries = <<>>
    /\ idx = 0
    /\ fetched = <<>>
    /\ atm_iv = Null
    /\ put_call_volume_ratio = Null
    /\ implied_move = Null
    /\ stdout = <<>>
    /\ exitCode = Null

inputs == <<argv, provider, clock>>
args == <<max_days, num_expiries>>
metrics == <<atm_iv, put_call_volume_ratio, implied_move>>
chains == <<rows, now, valid_expiries, idx, fetched>>
output == <<stdout, exitCode>>

\* a bare "except:" in place of "except Exception": SystemExit is caught too
CaughtBare(exc) == TRUE

\* "except Exception" at line 224: what the outermost handler catches
Caught(exc) == exc # "SystemExit"

\* sys.exit(code) inside the outer try: SystemExit leaves main() unless the
\* handler catches it
SysExit(code) ==
    IF Caught("SystemExit")
    THEN pc' = "except" /\ exitCode' = exitCode
    ELSE pc' = "done" /\ exitCode' = Some(code)

\* lines 17-19: no symbol
MissingSymbol ==
    /\ pc = "start"
    /\ ~argv.symbol
    /\ stdout' = Append(stdout, DegenerateDoc)
    /\ SysExit(0)
    /\ UNCHANGED <<inputs, args, spot, chains, metrics>>

\* lines 22-23: int() of an argument raises
ArgsRaise ==
    /\ pc = "start"
    /\ argv.symbol
    /\ ArgRaises(argv.max_days) \/ ArgRaises(argv.expiries)
    /\ pc' = "except"
    /\ UNCHANGED <<inputs, args, spot, chains, metrics, output>>

\* lines 21-24
ParseArgs ==
    /\ pc = "start"
    /\ argv.symbol
    /\ ~ArgRaises(argv.max_days) /\ ~ArgRaises(argv.expiries)
    /\ max_days' = ArgValue(argv.max_days, DefaultMaxDays)
    /\ num_expiries' = Clamp(ArgValue(argv.expiries, DefaultExpiries))
    /\ pc' = "spot"
    /\ UNCHANGED <<inputs, spot, chains, metrics, output>>

\* lines 36-45: the value spot holds after the try
SpotOf(info, hist) ==
    LET quote == PyOr(info.regularMarketPrice, info.currentPrice)
    IN  IF ~info.ok THEN Absent
        ELSE IF Truthy(quote) THEN quote
        ELSE IF hist.ok /\ hist.close # Null THEN Num(hist.close[1])
        ELSE quote

GetSpot ==
    /\ pc = "spot"
    /\ spot' = SpotOf(provider.info, provider.hist)
    /\ pc' = "options"
    /\ UNCHANGED <<inputs, args, chains, metrics, output>>

\* lines 50-51, ticker.options raises or is empty
NoExpiries ==
    /\ pc = "options"
    /\ ~provider.options.ok \/ provider.options.list = <<>>
    /\ pc' = "metrics"
    /\ UNCHANGED <<inputs, args, spot, chains, metrics, output>>

\* lines 50-65
GetExpiries ==
    /\ pc = "options"
    /\ provider.options.ok /\ provider.options.list # <<>>
    /\ now' = clock
    /\ valid_expiries' =
           SelectExpiries(provider.options.list, clock, max_days, num_expiries)
    /\ idx' = 1
    /\ pc' = "fetch"
    /\ UNCHANGED <<inputs, args, spot, rows, fetched, metrics, output>>

\* lines 68-134: one iteration of the fetch loop.  The safety check of
\* line 77 skips the expiration; a failed fetch and a record that raises
\* both leave the loop through the except at line 133.
FetchChain ==
    /\ pc = "fetch"
    /\ idx <= Len(valid_expiries)
    /\ LET expiry == valid_expiries[idx]
           ttm_days == TtmDays(expiry, now)
           opt_chain == provider.chain[expiry]
           done == ProcessChain(rows, opt_chain, expiry, ttm_days, max_days)
       IN  IF ~InWindow(ttm_days, max_days)
           THEN idx' = idx + 1 /\ UNCHANGED <<pc, rows, fetched>>
           ELSE /\ fetched' = Append(fetched, expiry)
                /\ IF ~opt_chain.ok
                   THEN rows' = rows /\ idx' = idx /\ pc' = "metrics"
                   ELSE /\ rows' = done.rows
                        /\ IF done.raised
                           THEN idx' = idx /\ pc' = "metrics"
                           ELSE idx' = idx + 1 /\ pc' = pc
    /\ UNCHANGED <<inputs, args, spot, now, valid_expiries, metrics, output>>

\* line 68: the loop is exhausted
EndFetch ==
    /\ pc = "fetch"
    /\ idx > Len(valid_expiries)
    /\ pc' = "metrics"
    /\ UNCHANGED <<inputs, args, spot, chains, metrics, output>>

\* abs(s - spot) at line 151 raises on a spot that is no number
MetricsRaise == Truthy(spot) /\ rows # <<>> /\ spot.k # "num"

\* lines 137-209; the quantifiers bind main()'s local variables
ComputeMetrics ==
    /\ pc = "metrics"
    /\ IF MetricsRaise
       THEN pc' = "except" /\ UNCHANGED metrics
       ELSE /\ pc' = "output"
            /\ IF Truthy(spot) /\ rows # <<>>
               THEN \E nearest_expiry \in {NearestExpiry(rows)} :
                    \E expiry_rows \in {ExpiryRows(rows, nearest_expiry)} :
                    \E strikes \in {AtmStrikes(expiry_rows)} :
                    \E atm_strike \in {AtmStrike(strikes, spot.v)} :
                    \E atm_call \in {FirstRow(expiry_rows, 1, atm_strike, "call")} :
                    \E atm_put \in {FirstRow(expiry_rows, 1, atm_strike, "put")} :
                        /\ atm_iv' = AtmIv(atm_call, atm_put, atm_strike)
                        /\ put_call_volume_ratio' =
                               PutCall(SumVolume(expiry_rows, 1, "call"),
                                       SumVolume(expiry_rows, 1, "put"))
                        /\ implied_move' =
                               ImpliedMove(atm_call, atm_put, spot.v, nearest_expiry)
               ELSE UNCHANGED metrics
    /\ UNCHANGED <<inputs, args, spot, chains, output>>

\* lines 212-222; round(spot, 2) raises on a spot that is no number
Output ==
    /\ pc = "output"
    /\ IF Truthy(spot) /\ spot.k # "num"
       THEN pc' = "except" /\ UNCHANGED output
       ELSE stdout' = Append(stdout, ResultDoc) /\ SysExit(0)
    /\ UNCHANGED <<inputs, args, spot, chains, metrics>>

\* lines 224-235: sys.exit(0) in the handler leaves main()
HandleException ==
    /\ pc = "except"
    /\ stdout' = Append(stdout, DegenerateDoc)
    /\ pc' = "done"
    /\ exitCode' = Some(0)
    /\ UNCHANGED <<inputs, args, spot, chains, metrics>>

Next ==
    \/ MissingSymbol
    \/ ArgsRaise
    \/ ParseArgs
    \/ GetSpot
    \/ NoExpiries
    \/ GetExpiries
    \/ FetchChain
    \/ EndFetch
    \/ ComputeMetrics
    \/ Output
    \/ HandleException

Spec == Init /\ [][Next]_vars

\* main() is one sequential process: it always takes its next step
FairSpec == Spec /\ WF_vars(Next)

-----------------------------------------------------------------------------
(* Properties                                                              *)

Docs == Range(stdout)

\* the run went through lines 212-222
NormalDoc(doc) == "atm_iv" \in DOMAIN doc

Finished == pc = "done" /\ Len(stdout) = 1 /\ NormalDoc(stdout[1])

\* C1: every run ends with exit code 0 and exactly one document on standard
\* output, whatever fails on the way; no run prints none and none prints two.
C1_ExactlyOneDocument ==
    /\ [](/\ Len(stdout) <= 1
          /\ (pc = "done" => Len(stdout) = 1 /\ exitCode = Some(0))
          /\ (pc # "done" => exitCode = Null /\ Len(stdout) = 0))
    /\ <>(pc = "done")

\* a run whose chain fetch failed after rows were gathered and that the
\* outermost handler ended: one document, the degenerate one
C1_Witness ==
    /\ pc = "done" /\ exitCode = Some(0)
    /\ stdout = <<DegenerateDoc>>
    /\ rows # <<>>
    /\ Len(fetched) = 2 /\ ~provider.chain[fetched[2]].ok

-----------------------------------------------------------------------------

RecordsOf(chain) == chain.calls \o chain.puts

NoRecordRaises(chain) == \A r \in Range(RecordsOf(chain)) : ~RecordRaises(r)

\* the rows of a run in which a failed fetch contributes no records
RECURSIVE RowsSkippingFailed(_, _)
RowsSkippingFailed(acc, i) ==
    IF i > Len(valid_expiries) THEN acc
    ELSE LET e == valid_expiries[i]
             c == provider.chain[e]
         IN  RowsSkippingFailed(
                 IF c.ok THEN ProcessChain(acc, c, e, TtmDays(e, now), max_days).rows
                 ELSE acc,
                 i + 1)

\* C2: a failed chain fetch for one selected expiration skips that expiration
\* only: the later ones are still fetched and the rows are those of the run
\* in which the failing expiration returned no records.
C2_OnlyFailedExpirySkipped ==
    (/\ Finished
     /\ Cardinality({i \in 1..Len(valid_expiries) :
                        ~provider.chain[valid_expiries[i]].ok}) = 1
     /\ \A i \in 1..Len(valid_expiries) :
            NoRecordRaises(provider.chain[valid_expiries[i]]))
    => /\ fetched = valid_expiries
       /\ stdout[1].rows = RowsSkippingFailed(<<>>, 1)

-----------------------------------------------------------------------------

\* a record as the normaliser is to read it: a non-critical field that does
\* not parse counts as missing
Defaulted(r) ==
    [r EXCEPT !.openInterest = IF IntRaises(Get0(@)) THEN Absent ELSE @,
              !.volume = IF NotNa(@) /\ IntRaises(@) THEN Absent ELSE @,
              !.bid = IF FloatRaises(@) THEN Absent ELSE @,
              !.ask = IF FloatRaises(@) THEN Absent ELSE @,
              !.lastPrice = IF FloatRaises(@) THEN Absent ELSE @]

\* the rows of one side when each record is judged alone
RECURSIVE RowsJudgedAlone(_, _, _, _, _)
RowsJudgedAlone(recs, i, type, expiry, ttm) ==
    IF i > Len(recs) THEN <<>>
    ELSE LET r == Defaulted(recs[i])
             critical == Gt0(r.impliedVolatility) /\ Gt0(r.strike)
         IN  (IF critical /\ RecordAccepted(r, ttm, max_days)
              THEN <<CanonicalRow(r, type, expiry, ttm)>> ELSE <<>>)
             \o RowsJudgedAlone(recs, i + 1, type, expiry, ttm)

RECURSIVE AllJudgedAlone(_)
AllJudgedAlone(i) ==
    IF i > Len(valid_expiries) THEN <<>>
    ELSE LET e == valid_expiries[i]
             c == provider.chain[e]
         IN  RowsJudgedAlone(c.calls, 1, "call", e, TtmDays(e, now))
             \o RowsJudgedAlone(c.puts, 1, "put", e, TtmDays(e, now))
             \o AllJudgedAlone(i + 1)

\* C3: a record whose iv or strike is missing or does not parse is rejected
\* alone, and a non-critical field that does not parse takes its default 0:
\* every other record of the same and of the later expirations is in rows.
C3_BadRecordRejectedAlone ==
    (/\ Finished
     /\ \A i \in 1..Len(valid_expiries) : provider.chain[valid_expiries[i]].ok)
    => stdout[1].rows = AllJudgedAlone(1)

-----------------------------------------------------------------------------

-----------------------------------------------------------------------------

\* C5: every emitted iv and every emitted strike is strictly positive.
C5_IvStrikePositive ==
    \A doc \in Docs : \A r \in Range(doc.rows) : r.iv > 0 /\ r.strike > 0

-----------------------------------------------------------------------------

\* the provider omitted the field or reported a value that is non-positive
\* or no number
NoValue(x) == x.k # "num" \/ x.v <= 0

\* C6: every emitted volume, bid, ask and lastPrice is >= 0, and is 0 when
\* the provider omitted the field or reported a non-positive or non-numeric
\* value.
C6_QuotesNonNegative ==
    /\ \A doc \in Docs : \A r \in Range(doc.rows) :
           r.volume >= 0 /\ r.bid >= 0 /\ r.ask >= 0 /\ r.lastPrice >= 0
    /\ \A e \in Range(fetched) : \A type \in {"call", "put"} :
         \A r \in Range(IF type = "call" THEN provider.chain[e].calls
                                         ELSE provider.chain[e].puts) :
           LET ttm == TtmDays(e, now)
               out == CanonicalRow(r, type, e, ttm)
           IN  (~RecordRaises(r) /\ RecordAccepted(r, ttm, max_days)
                    /\ \E doc \in Docs : out \in Range(doc.rows))
               => /\ NoValue(r.volume) => out.volume = 0
                  /\ NoValue(r.bid) => out.bid = 0
                  /\ NoValue(r.ask) => out.ask = 0
                  /\ NoValue(r.lastPrice) => out.lastPrice = 0

-----------------------------------------------------------------------------

\* C7: in every document with no rows or a null spot the three metrics are
\* present and null.
C7_MetricsNullWithoutData ==
    \A doc \in Docs :
        (doc.rows = <<>> \/ doc.spot = Null)
        => /\ {"atm_iv", "put_call_volume_ratio", "implied_move"} \subseteq DOMAIN doc
           /\ doc.atm_iv = Null
           /\ doc.put_call_volume_ratio = Null
           /\ doc.implied_move = Null

-----------------------------------------------------------------------------

\* C8: when the live quote is unavailable (the lookup fails or returns no
\* price) spot is the last daily close if the history has one, and is null
\* only when it has none; row assembly runs afterwards either way.
C8_SpotFallback ==
    pc \in {"options", "fetch", "metrics", "output"}
    => LET info == provider.info
           hist == provider.hist
           unavailable ==
               ~info.ok \/ ~Truthy(PyOr(info.regularMarketPrice, info.currentPrice))
       IN  unavailable
           => IF hist.ok /\ hist.close # Null
              THEN spot = Num(hist.close[1])
              ELSE SpotOut(spot) = Null

-----------------------------------------------------------------------------

\* the rows of the nearest expiration of a document
NearestRows(doc) ==
    {r \in Range(doc.rows) : \A q \in Range(doc.rows) : r.expiryUTC <= q.expiryUTC}

NearestStrikes(doc) == {r.strike : r \in NearestRows(doc)}

\* the strikes of the nearest expiration that are nearest to the spot
Nearest(doc) ==
    {k \in NearestStrikes(doc) :
        \A j \in NearestStrikes(doc) : Abs(k - spot.v) <= Abs(j - spot.v)}

\* the position in rows of the first row of strike k
FirstAt(doc, k) ==
    CHOOSE i \in 1..Len(doc.rows) :
        /\ doc.rows[i] \in NearestRows(doc) /\ doc.rows[i].strike = k
        /\ \A j \in 1..(i - 1) :
               ~(doc.rows[j] \in NearestRows(doc) /\ doc.rows[j].strike = k)

\* C9 (as amended): the ATM strike is a strike of the nearest expiration
\* that minimises abs(strike - spot), and of two equally close strikes it is
\* the smaller one, whatever the provider's order; for strikes 95, 100, 105
\* and spot 101 it is 100.
C9_AtmStrikeSmallestNearest ==
    \A doc \in Docs :
        (NormalDoc(doc) /\ doc.atm_iv # Null)
        => /\ doc.atm_iv[1].strike \in Nearest(doc)
           /\ \A k \in Nearest(doc) : doc.atm_iv[1].strike <= k
           /\ (NearestStrikes(doc) = {95000, 100000, 105000} /\ spot.v = 101000)
              => doc.atm_iv[1].strike = 100000

\* two strikes as close to the spot, the larger one first in rows, and the
\* smaller one chosen
C9_Witness ==
    \E doc \in Docs :
        /\ NormalDoc(doc) /\ doc.atm_iv # Null
        /\ Cardinality(Nearest(doc)) = 2
        /\ \E k \in Nearest(doc) :
               k > doc.atm_iv[1].strike
               /\ FirstAt(doc, k) < FirstAt(doc, doc.atm_iv[1].strike)

\* C9 (as stated): of two equally close strikes the ATM strike is the one
\* that occurs first in the rows of the nearest expiration.
C9_Original ==
    \A doc \in Docs :
        (NormalDoc(doc) /\ doc.atm_iv # Null)
        => /\ doc.atm_iv[1].strike \in Nearest(doc)
           /\ \A k \in Nearest(doc) :
                  FirstAt(doc, doc.atm_iv[1].strike) <= FirstAt(doc, k)

-----------------------------------------------------------------------------

\* the expirations of l inside the window
Valid(l) == SelectSeq(l, LAMBDA e : 0 < e * DayUnits - now
                                   /\ e * DayUnits - now <= max_days * DayUnits)

Take(l, n) == SubSeq(l, 1, IF Len(l) < n THEN Len(l) ELSE n)

\* C10: num_expiries is the requested count clamped into [3, 8]; the selected
\* expirations are the first num_expiries, in provider order, of those of the
\* first 2 x num_expiries candidates that are inside the window; at most
\* num_expiries chains are fetched.
C10_Selection ==
    /\ pc \notin {"start", "except", "done"} \/ num_expiries # 0
       => LET asked == IF argv.expiries.k = "absent" THEN 5 ELSE argv.expiries.v
          IN  /\ num_expiries \in 3..8
              /\ asked \in 3..8 => num_expiries = asked
              /\ asked < 3 => num_expiries = 3
              /\ asked > 8 => num_expiries = 8
    /\ idx >= 1
       => /\ valid_expiries =
                 Take(Valid(Take(provider.options.list, 2 * num_expiries)), num_expiries)
          /\ Len(valid_expiries) <= num_expiries
          /\ Len(fetched) <= num_expiries
          /\ fetched = Take(valid_expiries, Len(fetched))

\* a list longer than 2 x num_expiries whose seventh expiration is inside
\* the window and is not selected, fewer than num_expiries being selected
C10_Witness ==
    /\ pc = "done" /\ idx >= 1
    /\ Len(provider.options.list) > 2 * num_expiries
    /\ InWindow(TtmDays(provider.options.list[2 * num_expiries + 1], now), max_days)
    /\ Len(valid_expiries) < num_expiries
    /\ Len(fetched) = Len(valid_expiries) /\ Len(fetched) > 0

====
